---- MODULE Spec2Model ----
(***************************************************************************)
(* A model of andor.py: Camera sessions that multiplex calls into the      *)
(* Andor SDK through the with_camera decorator, and the acquisition        *)
(* methods (enable, arm, abort, disable, update_settings) built on it.     *)
(*                                                                         *)
(* Every thread executes Camera methods one statement at a time.  A frame  *)
(* of a thread's stack is one activation of with_camera.wrapper around a   *)
(* method; its phase (ph) is the wrapper's position and its pc the         *)
(* position in the wrapped method's body.                                  *)
(***************************************************************************)
EXTENDS Integers, Sequences, FiniteSets, TLC

\* ------------------------------------------------------------- bounds
\* Cameras (sessions) and threads of the multi-camera process.
NumCams == 2
NumThreads == 3
\* Setting values range over 1..MaxVal (0 stands for "key absent").
MaxVal == 1
\* Calls of CameraManager.update_cameras in one behaviour.
MaxUpdates == 3

\* ---------------------------------------------------- program constants
\* sdk.DRV_TEMP_STABILIZED and the other status GetTemperature may return.
DRV_TEMP_STABILIZED == 20036
DRV_TEMP_NOT_STABILIZED == 20035
\* sdk.DRV_SUCCESS, the status of a driver call that did not fail.
DRV_SUCCESS == 20002

VARIABLES
  stack,          \* thread -> sequence of frames (with_camera activations)
  ret,            \* thread -> value returned by the last finished call
  op,             \* thread -> the client call in progress / last finished
  trace,          \* thread -> what the current client call did (instrumentation):
                  \*   <<"sdk", f, device, argument or status>>  driver call issued
                  \*   <<"call", m, 0, 0>>    wrapped method m called
                  \*   <<"raised", m, 0, 0>>  the call of m raised
                  \*   <<"caught", m, 0, 0>>  and a try around the call caught it
  dll_lock,       \* 0: unlocked; t: locked by an acquire() of thread t
  CurrentCamera,  \* the driver's current-device selector (a handle)
  singleton,      \* camera -> Camera.singleton
  has_lock,       \* camera -> Camera.has_lock
  enabled,        \* camera -> Camera.enabled
  ready,          \* camera -> Camera.ready
  armed,          \* camera -> Camera.armed
  count,          \* camera -> Camera.count
  caps,           \* camera -> Camera.caps
  settings,       \* camera -> Camera.settings
  devCaps,        \* device -> what GetCapabilities reports for it
  devGain,        \* device -> EM gain last set on it
  devAmp,         \* device -> output amplifier last set on it (1: conventional)
  server,         \* worker process -> state of its CameraServer.serve()
  enumeration,    \* worker process -> the device behind each index it
                  \*   enumerates (the driver's order is local to a process)
  owner,          \* device -> the worker process that initialized it (0: none)
  serialOf,       \* device -> its serial number
  pump,           \* the DataThread of the camera and the frames it fetched
  manager         \* the CameraManager of the process

lockVars == <<dll_lock, has_lock>>
camVars  == <<enabled, ready, armed, count, caps, settings>>
devVars  == <<devGain, devAmp>>
sessionVars == <<stack, ret, op, trace, dll_lock, CurrentCamera, singleton,
                 has_lock, enabled, ready, armed, count, caps, settings,
                 devCaps, devGain, devAmp>>
serveVars == <<server, enumeration, owner, serialOf>>
vars == <<sessionVars, serveVars, pump, manager>>

Threads == DOMAIN stack
Cams == DOMAIN singleton

\* The camera a thread calls into: threads are dealt round-robin to cameras.
CamOf(t) == ((t - 1) % Cardinality(Cams)) + 1

\* Camera.handle: distinct per camera.
handle(c) == c

\* ------------------------------------------------------------ settings
\* The keys of the settings dicts clients pass: one with a registered setter,
\* and one without, which enable reads.
SettingKeys == {"EMGain", "targetTemperature"}

\* Variant of SETTERS that gives every key a setter (C22 rejects it).
SETTERS_for_any_key(key) ==
  CASE key = "exposureTime" -> "SetExposureTime"
    [] key = "EMGain" -> "SetEMCCDGain"
    [] OTHER -> "SetOther"

\* SETTERS: the keys with a registered setter and the driver function each uses.
SETTERS(key) ==
  CASE key = "exposureTime" -> "SetExposureTime"
    [] key = "EMGain" -> "SetEMCCDGain"
    [] OTHER -> "none"

\* A settings dict: key -> value, 0 when the key is absent.  The value of
\* targetTemperature is not modelled: 1 when the key is present.
SettingsDicts == {d \in [SettingKeys -> 0..MaxVal] : d["targetTemperature"] <= 1}
EmptyDict == [k \in SettingKeys |-> 0]
DictKeys(d) == {k \in DOMAIN d : d[k] # 0}
\* dict.update(other)
DictUpdate(d, other) ==
  [k \in DOMAIN d \cup DOMAIN other |->
     IF k \in DOMAIN other /\ other[k] # 0 THEN other[k]
     ELSE IF k \in DOMAIN d THEN d[k] ELSE 0]

\* The settings dicts that may also hold a key nothing in the module knows.
UnknownKey == "colour"
DictsWithUnknownKey ==
  {d \in [SettingKeys \cup {UnknownKey} -> 0..MaxVal] :
     d["targetTemperature"] <= 1 /\ d[UnknownKey] <= 1}

\* -------------------------------------------------------- capabilities
\* sdk.AndorCapabilities(): a zeroed structure until GetCapabilities fills it.
ZeroCaps == [emccdgain |-> FALSE, camtype |-> "ZERO"]
\* The camera types make_safe switches to the conventional amplifier.
AmpTypes == {"CLARA", "IXON", "IXONULTRA", "NEWTON"}
\* What GetCapabilities reports for the supported cameras (SUPPORTED_CAMERAS:
\* iXon EMCCDs): EM gain can be set, and the type is one of AmpTypes.
IXON_EMCCD == [emccdgain |-> TRUE, camtype |-> "IXON"]

\* ------------------------------------------------------- method bodies
\* One statement of a method body:
\*   op    "call": call a with_camera-wrapped method f of the same Camera;
\*         "sdk" : call sdk.f directly (no wrapper of its own);
\*         "do"  : the assignments named f;
\*         "loop": the for-loop of update_settings over update_keys;
\*   catch pc of the except-handler when the call sits in a try (0: none);
\*   next  pc after the statement finishes normally (0: pc + 1);
\*   cond  the condition guarding the statement;
\*   val   the argument passed (-1: the frame's own argument);
\*   init  the init keyword passed to update_settings.
I(o, f, catch, next, cond, val, init) ==
  [op |-> o, f |-> f, catch |-> catch, next |-> next, cond |-> cond,
   val |-> val, init |-> init]
CallM(f)      == I("call", f, 0, 0, "always", 0, FALSE)
CallV(f, v)   == I("call", f, 0, 0, "always", v, FALSE)
Sdk(f)        == I("sdk", f, 0, 0, "always", -1, FALSE)
Do(f)         == I("do", f, 0, 0, "always", 0, FALSE)

\* The functions of sdk.camerafuncs the methods use: CameraMeta adds each to
\* Camera as with_camera(sdk_call(f)).
DriverFuncs ==
  {"AbortAcquisition", "SetShutter", "StartAcquisition", "Initialize",
   "SetFanMode", "GetTemperatureRange", "SetTemperature", "CoolerON",
   "SetTriggerMode", "SetEMCCDGain", "SetOutputAmplifier", "SetExposureTime",
   "SetAcquisitionMode", "SetVSSpeed", "GetTemperature"}

\* Variant of Camera.__exit__ without the try around ShutDown (C16 rejects it).
camera_exit_no_try ==
  << CallM("ShutDown"), Do("enabled_false"), Do("armed_false"), Do("ready_false") >>

\* Camera.__exit__.
camera_exit ==
  << I("call", "ShutDown", 2, 2, "always", 0, FALSE),
     Do("enabled_false"), Do("armed_false"), Do("ready_false") >>

abort == << CallM("AbortAcquisition"), Do("ready_false") >>

\* Variant of arm without the readiness test (C8 rejects it).
arm_unchecked ==
  << CallM("is_ready"), Do("none"), CallV("SetShutter", 1),
     Do("count_zero"), Do("armed_true"), CallM("StartAcquisition") >>

arm ==
  << CallM("is_ready"), Do("check_ready"), CallV("SetShutter", 1),
     Do("count_zero"), Do("armed_true"), CallM("StartAcquisition") >>

\* Variant of disable without the try around abort (C7 rejects it).
disable_no_try ==
  << Do("enabled_false"), CallM("abort"), CallM("make_safe") >>

disable ==
  << Do("enabled_false"),
     I("call", "abort", 3, 3, "always", 0, FALSE),
     CallM("make_safe") >>

enable ==
  << Do("enabled_false"),
     I("call", "abort", 3, 4, "always", 0, FALSE),
     CallM("Initialize"),
     CallM("get_detector"),
     CallM("get_capabilities"),
     CallM("SetFanMode"),
     CallM("GetTemperatureRange"),
     I("call", "SetTemperature", 0, 0, "has_target", 0, FALSE),
     CallM("CoolerON"),
     I("call", "update_settings", 0, 0, "always", 0, TRUE),
     CallV("set_acquisition_mode", 1),
     CallV("SetTriggerMode", 1),
     CallM("set_fastest_vs_speed"),
     Do("enabled_true") >>

make_safe ==
  << I("call", "SetEMCCDGain", 0, 0, "caps_emccdgain", 0, FALSE),
     I("call", "SetOutputAmplifier", 0, 0, "caps_amptype", 1, FALSE) >>

update_settings ==
  << Do("enabled_false"),
     I("call", "abort", 3, 4, "always", 0, FALSE),
     CallM("Initialize"),
     Do("select_keys"),
     I("loop", "setter", 0, 5, "always", 0, FALSE),
     CallM("set_fastest_vs_speed"),
     Do("enabled_true") >>

is_ready == << CallM("GetTemperature"), Do("set_ready") >>

get_detector == << Sdk("GetDetector") >>

get_capabilities == << Sdk("GetCapabilities") >>

set_acquisition_mode == << CallV("SetAcquisitionMode", -1) >>

set_fastest_vs_speed ==
  << CallM("get_fastest_recommended_vs_speed"), CallM("SetVSSpeed") >>

get_fastest_recommended_vs_speed == << Sdk("GetFastestRecommendedVSSpeed") >>

get_temperature == << Sdk("GetTemperature") >>

\* sdk_call(f): the method added for driver function f passes its arguments to f.
sdk_call(f) == << Sdk(f) >>

Body(m) ==
  CASE m = "__exit__" -> camera_exit
    [] m = "abort" -> abort
    [] m = "arm" -> arm
    [] m = "disable" -> disable
    [] m = "enable" -> enable
    [] m = "make_safe" -> make_safe
    [] m = "update_settings" -> update_settings
    [] m = "is_ready" -> is_ready
    [] m = "get_detector" -> get_detector
    [] m = "get_capabilities" -> get_capabilities
    [] m = "set_acquisition_mode" -> set_acquisition_mode
    [] m = "set_fastest_vs_speed" -> set_fastest_vs_speed
    [] m = "get_fastest_recommended_vs_speed" -> get_fastest_recommended_vs_speed
    [] m = "get_temperature" -> get_temperature
    [] OTHER -> sdk_call(m)

\* ------------------------------------------------------------- frames
\* A new activation of with_camera.wrapper around method m.
Frame(m, arg, init, val) ==
  [m |-> m, pc |-> 1, ph |-> "entry", had |-> FALSE,
   arg |-> arg, init |-> init, val |-> val, todo |-> {}]

Top(s) == s[Len(s)]
Pop(s) == SubSeq(s, 1, Len(s) - 1)
SetTop(s, f) == [s EXCEPT ![Len(s)] = f]

\* The statement a frame is at.
Ins(f) == Body(f.m)[f.pc]
AtEnd(f) == f.pc > Len(Body(f.m))
NextPc(f) == IF Ins(f).next = 0 THEN f.pc + 1 ELSE Ins(f).next

\* An exception of the call of method who arrives at the call statement of the
\* top frame of s: a try around the call catches it, otherwise it leaves the
\* wrapped method; the wrapper of a non-singleton camera then runs its except
\* clause, and the wrapper of a singleton camera has none and lets it through.
\* (notes: what the instrumentation records of it.)
RECURSIVE Deliver(_, _, _)
Deliver(s, single, who) ==
  IF s = <<>> THEN [stk |-> s, notes |-> {}]
  ELSE LET f == Top(s)
           here == {<<"raised", who, 0, 0>>}
       IN IF Ins(f).catch # 0
          THEN [stk |-> SetTop(s, [f EXCEPT !.pc = Ins(f).catch]),
                notes |-> here \cup {<<"caught", who, 0, 0>>}]
          ELSE IF single
          THEN LET d == Deliver(Pop(s), single, f.m)
               IN [stk |-> d.stk, notes |-> here \cup d.notes]
          ELSE [stk |-> SetTop(s, [f EXCEPT !.ph = "exc_check"]), notes |-> here]

\* An exception is raised by a statement of the top frame's own method.
RaiseIn(s, single) ==
  IF single THEN Deliver(Pop(s), single, Top(s).m)
  ELSE [stk |-> SetTop(s, [Top(s) EXCEPT !.ph = "exc_check"]), notes |-> {}]

\* The top frame's wrapper returns to its caller, which moves on.
ReturnTo(s) ==
  LET r == Pop(s) IN
  IF r = <<>> THEN r ELSE SetTop(r, [Top(r) EXCEPT !.pc = NextPc(Top(r))])

\* The client call of thread t is over once its stack is empty again.
Finished(o, s, raised) ==
  IF s = <<>> THEN [o EXCEPT !.st = IF raised THEN "raised" ELSE "returned"] ELSE o

\* ------------------------------------------------------------- driver
\* What a call of driver function f may give: 0 stands for the call raising,
\* anything else is the status it returns.
SdkResults(f) ==
  IF f = "GetTemperature"
  THEN {0, DRV_TEMP_STABILIZED, DRV_TEMP_NOT_STABILIZED}
  ELSE {0, DRV_SUCCESS}

\* The conditions guarding statements.
Cond(name, c, f) ==
  CASE name = "has_target" -> f.arg["targetTemperature"] # 0
    [] name = "caps_emccdgain" -> caps[c].emccdgain
    [] name = "caps_amptype" -> caps[c].camtype \in AmpTypes
    [] OTHER -> TRUE

\* update_settings: the keys whose setters are to be called.
UpdateKeys(mine, theirs, init) ==
  IF init
  THEN DictKeys(mine)
  ELSE DictKeys(theirs) \cup
       {k \in DictKeys(mine) \cap DictKeys(theirs) : mine[k] # theirs[k]}

\* ---------------------------------------------------- instrumentation
\* op and trace record, for the threads in their domain, the client call in
\* progress and what it did; they are written and never read by the program.
\* A record with full set also keeps the settings map and the device's gain
\* as they were when the call was made (pre), and whether the call repeats
\* the call before it, which returned normally (again).
Watched(t) == t \in DOMAIN op

Note(t, entries) ==
  trace' = IF Watched(t) THEN [trace EXCEPT ![t] = @ \cup entries] ELSE trace

\* ------------------------------------------------- control transfers
\* The top frame of thread t goes to phase ph of its wrapper.
GoTo(t, ph) ==
  /\ stack' = [stack EXCEPT ![t] = SetTop(@, [Top(@) EXCEPT !.ph = ph])]
  /\ UNCHANGED <<op, trace, ret>>

\* The stack of thread t becomes s; the client takes the result or the
\* exception of a call that is over.
Resume(t, s, raised, entries) ==
  /\ stack' = [stack EXCEPT ![t] = s]
  /\ op' = IF Watched(t) THEN [op EXCEPT ![t] = Finished(@, s, raised)] ELSE op
  /\ Note(t, entries)
  /\ ret' = IF s = <<>> THEN [ret EXCEPT ![t] = 0] ELSE ret

\* An exception that the record d (of Deliver or RaiseIn) describes.
Raised(t, d, entries) == Resume(t, d.stk, TRUE, entries \cup d.notes)

\* The wrapper returns the result to its caller.
Leave(t) == Resume(t, ReturnTo(stack[t]), FALSE, {})

\* The wrapper lets an exception out to its caller ("raise", or a failing
\* dll_lock.release()).
Propagate(t) ==
  Raised(t, Deliver(Pop(stack[t]), singleton[CamOf(t)], Top(stack[t]).m), {})

\* The wrapper's frame is at phase ph.
AtPhase(t, ph) ==
  /\ stack[t] # <<>>
  /\ Top(stack[t]).ph = ph

\* The frame is running the wrapped method: "result = func(self, ...)".
InBody(t) == AtPhase(t, "body")

\* ------------------------------------------------------------ actions
\* A client (or a thread of the process) calls method m of its camera.
ClientCall(t, m, a) ==
  /\ stack[t] = <<>>
  /\ m \in {"enable", "update_settings"} \/ a = EmptyDict
  /\ stack' = [stack EXCEPT ![t] = << Frame(m, a, FALSE, 0) >>]
  /\ op' = IF Watched(t)
           THEN [op EXCEPT ![t] =
                   [m |-> m, st |-> "running", arg |-> a, full |-> @.full,
                    again |-> /\ @.full
                              /\ @.m = m
                              /\ @.st = "returned"
                              /\ @.arg = a,
                    pre |-> [enabled |-> enabled[CamOf(t)],
                             armed |-> armed[CamOf(t)],
                             count |-> count[CamOf(t)],
                             settings |-> IF @.full THEN settings[CamOf(t)]
                                          ELSE EmptyDict,
                             gain |-> IF @.full THEN devGain[CurrentCamera]
                                      ELSE 0]]]
           ELSE op
  /\ trace' = IF Watched(t) THEN [trace EXCEPT ![t] = {}] ELSE trace
  /\ UNCHANGED <<ret, lockVars, CurrentCamera, singleton, camVars, devCaps, devVars>>

\* Variant of Entry that takes the locking path whatever self.singleton is
\* (C5 rejects it).
EntryIgnoringSingleton(t) ==
  /\ AtPhase(t, "entry")
  /\ LET f == Top(stack[t])
         c == CamOf(t)
     IN stack' = [stack EXCEPT ![t] = SetTop(@,
          [f EXCEPT !.had = has_lock[c],
                    !.ph = IF has_lock[c] THEN "select" ELSE "acquire"])]
  /\ UNCHANGED <<ret, op, trace, lockVars, CurrentCamera, singleton, camVars,
                 devCaps, devVars>>

\* wrapper: "if not self.singleton: had_lock_on_entry = self.has_lock".
Entry(t) ==
  /\ AtPhase(t, "entry")
  /\ LET f == Top(stack[t])
         c == CamOf(t)
     IN stack' = [stack EXCEPT ![t] = SetTop(@,
          IF singleton[c] THEN [f EXCEPT !.ph = "body"]
          ELSE [f EXCEPT !.had = has_lock[c],
                         !.ph = IF has_lock[c] THEN "select" ELSE "acquire"])]
  /\ UNCHANGED <<ret, op, trace, lockVars, CurrentCamera, singleton, camVars,
                 devCaps, devVars>>

\* wrapper: dll_lock.acquire(), which blocks while the lock is locked.
Acquire(t) ==
  /\ AtPhase(t, "acquire")
  /\ dll_lock = 0
  /\ dll_lock' = t
  /\ GoTo(t, "setflag")
  /\ UNCHANGED <<has_lock, CurrentCamera, singleton, camVars, devCaps, devVars>>

\* wrapper: self.has_lock = True.
SetHasLock(t) ==
  /\ AtPhase(t, "setflag")
  /\ has_lock' = [has_lock EXCEPT ![CamOf(t)] = TRUE]
  /\ GoTo(t, "select")
  /\ UNCHANGED <<dll_lock, CurrentCamera, singleton, camVars, devCaps, devVars>>

\* wrapper: sdk.SetCurrentCamera(self.handle), inside the try.
Select(t) ==
  /\ AtPhase(t, "select")
  /\ \E r \in SdkResults("SetCurrentCamera") :
       IF r = 0
       THEN GoTo(t, "exc_check") /\ UNCHANGED CurrentCamera
       ELSE GoTo(t, "body") /\ CurrentCamera' = handle(CamOf(t))
  /\ UNCHANGED <<lockVars, singleton, camVars, devCaps, devVars>>

\* A statement that calls a wrapped method of the same camera, or the loop of
\* update_settings that calls the setter of each key of update_keys.
CallStep(t) ==
  /\ InBody(t)
  /\ ~AtEnd(Top(stack[t]))
  /\ Ins(Top(stack[t])).op \in {"call", "loop"}
  /\ LET f == Top(stack[t])
         c == CamOf(t)
         ins == Ins(f)
         push(g, callee) ==
           /\ stack' = [stack EXCEPT ![t] = Append(SetTop(@, g), callee)]
           /\ Note(t, {<<"call", callee.m, 0, 0>>})
         skip(g) ==
           /\ stack' = [stack EXCEPT ![t] = SetTop(@, g)]
           /\ UNCHANGED trace
     IN IF ins.op = "call"
        THEN IF Cond(ins.cond, c, f)
             THEN push(f, Frame(ins.f,
                                IF ins.f = "update_settings" THEN f.arg ELSE EmptyDict,
                                ins.init,
                                IF ins.val = -1 THEN f.val ELSE ins.val))
             ELSE skip([f EXCEPT !.pc = NextPc(f)])
        ELSE IF f.todo = {}
             THEN skip([f EXCEPT !.pc = f.pc + 1])
             ELSE \E key \in f.todo :
                    IF SETTERS(key) = "none"
                    THEN skip([f EXCEPT !.todo = @ \ {key}])
                    ELSE push([f EXCEPT !.todo = @ \ {key}],
                              Frame(SETTERS(key), EmptyDict, FALSE, settings[c][key]))
  /\ UNCHANGED <<ret, op, lockVars, CurrentCamera, singleton, camVars, devCaps,
                 devVars>>

\* A statement that calls the driver: it acts on the device the driver's
\* current-camera selector names, and returns a status or raises.
SdkStep(t) ==
  /\ InBody(t)
  /\ ~AtEnd(Top(stack[t]))
  /\ Ins(Top(stack[t])).op = "sdk"
  /\ LET f == Top(stack[t])
         c == CamOf(t)
         fn == Ins(f).f
         dev == CurrentCamera
     IN \E r \in SdkResults(fn) :
          LET issued == {<<"sdk", fn, dev, IF fn = "GetTemperature" THEN r ELSE f.val>>}
          IN IF r = 0
             THEN /\ Raised(t, RaiseIn(stack[t], singleton[c]), issued)
                  /\ UNCHANGED <<caps, devVars>>
             ELSE /\ stack' = [stack EXCEPT ![t] = SetTop(@, [f EXCEPT !.pc = NextPc(f)])]
                  /\ Note(t, issued)
                  /\ ret' = [ret EXCEPT ![t] = r]
                  /\ devGain' = IF fn = "SetEMCCDGain"
                                THEN [devGain EXCEPT ![dev] = f.val] ELSE devGain
                  /\ devAmp' = IF fn = "SetOutputAmplifier"
                               THEN [devAmp EXCEPT ![dev] = f.val] ELSE devAmp
                  /\ caps' = IF fn = "GetCapabilities"
                             THEN [caps EXCEPT ![c] = devCaps[dev]] ELSE caps
                  /\ UNCHANGED op
  /\ UNCHANGED <<lockVars, CurrentCamera, singleton, enabled, ready, armed, count,
                 settings, devCaps>>

\* A statement that assigns to the camera's fields (or raises "not ready").
DoStep(t) ==
  /\ InBody(t)
  /\ ~AtEnd(Top(stack[t]))
  /\ Ins(Top(stack[t])).op = "do"
  /\ LET f == Top(stack[t])
         c == CamOf(t)
         a == Ins(f).f
         isready == ret[t] = DRV_TEMP_STABILIZED /\ enabled[c]
     IN IF a = "check_ready" /\ ret[t] = 0
        THEN /\ Raised(t, RaiseIn(stack[t], singleton[c]), {})
             /\ UNCHANGED camVars
        ELSE /\ stack' = [stack EXCEPT ![t] = SetTop(@,
                  [f EXCEPT !.pc = NextPc(f),
                            !.todo = IF a = "select_keys"
                                     THEN UpdateKeys(settings[c], f.arg, f.init)
                                     ELSE @])]
             /\ enabled' = [enabled EXCEPT ![c] =
                  CASE a = "enabled_false" -> FALSE
                    [] a = "enabled_true" -> TRUE
                    [] OTHER -> @]
             /\ ready' = [ready EXCEPT ![c] =
                  CASE a = "ready_false" -> FALSE
                    [] a = "set_ready" -> isready
                    [] OTHER -> @]
             /\ armed' = [armed EXCEPT ![c] =
                  CASE a = "armed_true" -> TRUE
                    [] a = "armed_false" -> FALSE
                    [] OTHER -> @]
             /\ count' = [count EXCEPT ![c] = IF a = "count_zero" THEN 0 ELSE @]
             /\ settings' = [settings EXCEPT ![c] =
                  IF a = "select_keys" THEN DictUpdate(@, f.arg) ELSE @]
             /\ ret' = [ret EXCEPT ![t] =
                  CASE a = "set_ready" -> IF isready THEN 1 ELSE 0
                    [] a = "enabled_true" -> 1
                    [] OTHER -> @]
             /\ UNCHANGED <<op, trace, caps>>
  /\ UNCHANGED <<lockVars, CurrentCamera, singleton, devCaps, devVars>>

\* The wrapped method returns: a singleton camera's wrapper returns the result
\* at once; any other evaluates "if dll_lock.locked() and not had_lock_on_entry".
Return(t) ==
  /\ InBody(t)
  /\ AtEnd(Top(stack[t]))
  /\ IF ~singleton[CamOf(t)] /\ dll_lock # 0 /\ ~Top(stack[t]).had
     THEN GoTo(t, "exit_release")
     ELSE Leave(t)
  /\ UNCHANGED <<lockVars, CurrentCamera, singleton, camVars, devCaps, devVars>>

\* wrapper, after the try: dll_lock.release(); releasing an unlocked lock raises.
ExitRelease(t) ==
  /\ AtPhase(t, "exit_release")
  /\ IF dll_lock = 0
     THEN Propagate(t) /\ UNCHANGED dll_lock
     ELSE GoTo(t, "exit_clear") /\ dll_lock' = 0
  /\ UNCHANGED <<has_lock, CurrentCamera, singleton, camVars, devCaps, devVars>>

\* wrapper, after the try: self.has_lock = False, then "return result".
ExitClear(t) ==
  /\ AtPhase(t, "exit_clear")
  /\ has_lock' = [has_lock EXCEPT ![CamOf(t)] = FALSE]
  /\ Leave(t)
  /\ UNCHANGED <<dll_lock, CurrentCamera, singleton, camVars, devCaps, devVars>>

\* wrapper, except clause: "if dll_lock.locked()", else straight to "raise".
ExcCheck(t) ==
  /\ AtPhase(t, "exc_check")
  /\ IF dll_lock # 0
     THEN GoTo(t, "exc_release")
     ELSE Propagate(t)
  /\ UNCHANGED <<lockVars, CurrentCamera, singleton, camVars, devCaps, devVars>>

\* wrapper, except clause: dll_lock.release().
ExcRelease(t) ==
  /\ AtPhase(t, "exc_release")
  /\ IF dll_lock = 0
     THEN Propagate(t) /\ UNCHANGED dll_lock
     ELSE GoTo(t, "exc_clear") /\ dll_lock' = 0
  /\ UNCHANGED <<has_lock, CurrentCamera, singleton, camVars, devCaps, devVars>>

\* wrapper, except clause: self.has_lock = False, then "raise".
ExcClear(t) ==
  /\ AtPhase(t, "exc_clear")
  /\ has_lock' = [has_lock EXCEPT ![CamOf(t)] = FALSE]
  /\ Propagate(t)
  /\ UNCHANGED <<dll_lock, CurrentCamera, singleton, camVars, devCaps, devVars>>

\* One step of with_camera.wrapper or of the method it wraps.
Run(t) ==
  \/ Entry(t) \/ Acquire(t) \/ SetHasLock(t) \/ Select(t)
  \/ CallStep(t) \/ SdkStep(t) \/ DoStep(t) \/ Return(t)
  \/ ExitRelease(t) \/ ExitClear(t)
  \/ ExcCheck(t) \/ ExcRelease(t) \/ ExcClear(t)

\* ------------------------------------------------------ specifications
\* A camera without a DataThread: Camera.data_thread is None.
NoPump == pump = [pc |-> "none", fetched |-> 0]

\* A process without a CameraManager.
NoManager == manager = <<>>

\* A process that runs no CameraServer.
NoServers ==
  /\ server = <<>>
  /\ enumeration = <<>>
  /\ owner = <<>>
  /\ serialOf = <<>>

\* Camera.__init__, for every camera of cams, and the threads that call them.
Constructed(cams, threads, watched, full) ==
  /\ stack = [t \in threads |-> <<>>]
  /\ ret = [t \in threads |-> 0]
  /\ op = [t \in watched |->
             [m |-> "none", st |-> "idle", arg |-> EmptyDict, full |-> full,
              again |-> FALSE,
              pre |-> [enabled |-> FALSE, armed |-> FALSE, count |-> 0,
                       settings |-> EmptyDict, gain |-> 0]]]
  /\ trace = [t \in watched |-> {}]
  /\ dll_lock = 0
  /\ has_lock = [c \in cams |-> FALSE]
  /\ enabled = [c \in cams |-> FALSE]
  /\ ready = [c \in cams |-> FALSE]
  /\ armed = [c \in cams |-> FALSE]
  /\ count = [c \in cams |-> 0]
  /\ caps = [c \in cams |-> ZeroCaps]
  /\ settings = [c \in cams |-> EmptyDict]

\* The methods a client calls over Pyro.
ClientOps == {"enable", "update_settings", "arm", "abort", "disable"}

\* One camera called by one client thread: either the singleton camera of a
\* CameraServer process, whose handle serve() selected before constructing it,
\* or a camera constructed with the default singleton=False.  The device is
\* an EMCCD iXon left with EM gain set and the EM amplifier selected.
Init ==
  /\ NoServers
  /\ NoPump
  /\ NoManager
  /\ Constructed({1}, {1}, {1}, FALSE)
  /\ singleton \in [{1} -> BOOLEAN]
  /\ CurrentCamera = handle(1)
  /\ devCaps = [c \in {1} |-> IXON_EMCCD]
  /\ devGain = [c \in {1} |-> MaxVal]
  /\ devAmp = [c \in {1} |-> 0]

Next ==
  /\ \E t \in Threads :
       \/ \E m \in ClientOps, a \in SettingsDicts : ClientCall(t, m, a)
       \/ Run(t)
  /\ UNCHANGED <<serveVars, pump, manager>>

Spec == Init /\ [][Next]_vars

\* The methods the threads of the multi-camera process call.
MultiOps == {"abort", "get_temperature"}

\* A process with NumCams cameras constructed by CameraManager (singleton is
\* False) and NumThreads threads calling them; the devices are EMCCD iXons
\* with EM gain set and the EM amplifier selected.
InitMulti ==
  /\ NoServers
  /\ NoPump
  /\ NoManager
  /\ Constructed(1..NumCams, 1..NumThreads, {}, FALSE)
  /\ singleton = [c \in 1..NumCams |-> FALSE]
  /\ CurrentCamera \in 1..NumCams
  /\ devCaps = [c \in 1..NumCams |-> IXON_EMCCD]
  /\ devGain = [c \in 1..NumCams |-> MaxVal]
  /\ devAmp = [c \in 1..NumCams |-> 0]

NextMulti ==
  /\ \E t \in Threads :
       \/ \E m \in MultiOps : ClientCall(t, m, EmptyDict)
       \/ Run(t)
  /\ UNCHANGED <<serveVars, pump, manager>>

SpecMulti == InitMulti /\ [][NextMulti]_vars

\* The methods that apply settings.
SettingsOps == {"enable", "update_settings"}

\* One camera whose client enables it and updates its settings; the device is
\* an EMCCD iXon left at any EM gain.
InitSettings ==
  /\ NoServers
  /\ NoPump
  /\ NoManager
  /\ Constructed({1}, {1}, {1}, TRUE)
  /\ singleton \in [{1} -> BOOLEAN]
  /\ CurrentCamera = handle(1)
  /\ devCaps = [c \in {1} |-> IXON_EMCCD]
  /\ devGain \in [{1} -> 0..MaxVal]
  /\ devAmp = [c \in {1} |-> 0]

NextSettings ==
  /\ \E t \in Threads :
       \/ \E m \in SettingsOps, a \in SettingsDicts : ClientCall(t, m, a)
       \/ Run(t)
  /\ UNCHANGED <<serveVars, pump, manager>>

SpecSettings == InitSettings /\ [][NextSettings]_vars

\* The methods of a session that is enabled, armed and shut down.
ShutdownOps == {"update_settings", "arm", "__exit__"}

\* One camera, as in Init, whose client also leaves its context (__exit__).
InitShutdown ==
  /\ NoServers
  /\ NoPump
  /\ NoManager
  /\ Constructed({1}, {1}, {1}, TRUE)
  /\ singleton \in [{1} -> BOOLEAN]
  /\ CurrentCamera = handle(1)
  /\ devCaps = [c \in {1} |-> IXON_EMCCD]
  /\ devGain = [c \in {1} |-> MaxVal]
  /\ devAmp = [c \in {1} |-> 0]

NextShutdown ==
  /\ \E t \in Threads :
       \/ \E m \in ShutdownOps, a \in SettingsDicts : ClientCall(t, m, a)
       \/ Run(t)
  /\ UNCHANGED <<serveVars, pump, manager>>

SpecShutdown == InitShutdown /\ [][NextShutdown]_vars

\* --------------------------------------------------------- DataThread
\* What self.cam.GetOldestImage16 may do: raise, return DRV_SUCCESS with a
\* frame, or return another status when no frame is ready.
PollResults == {"raises", "DRV_SUCCESS", "no new data"}

PumpAt(pc) == pump.pc = pc

\* DataThread(cam) and start(): __init__ sizes image_array from cam.nx and
\* cam.ny, which are None until enable() has run get_detector (and then
\* get_capabilities).
PumpStart ==
  /\ PumpAt("none")
  /\ caps[1] # ZeroCaps
  /\ pump' = [pump EXCEPT !.pc = "poll"]

\* run: "while not self.should_quit" (which nothing sets while the thread
\* runs), then the call of GetOldestImage16; fetched counts the frames it
\* returned since the camera was last armed.
PumpPoll ==
  /\ PumpAt("poll")
  /\ \E r \in PollResults :
       pump' = CASE r = "raises" -> [pump EXCEPT !.pc = "dead"]
                 [] r = "DRV_SUCCESS" -> [pump EXCEPT !.pc = "count",
                                                      !.fetched = @ + 1]
                 [] OTHER -> [pump EXCEPT !.pc = "sleep"]

\* run: "cam.count += 1": no name cam is defined in run or in the module, so
\* the statement raises NameError and the thread ends; the statements after
\* it, which hand the frame to self.client, are not reached.
PumpCount ==
  /\ PumpAt("count")
  /\ pump' = [pump EXCEPT !.pc = "dead"]

\* run: time.sleep(0.01), then the loop again.
PumpSleep ==
  /\ PumpAt("sleep")
  /\ pump' = [pump EXCEPT !.pc = "poll"]

\* One step of DataThread.
Pump == PumpStart \/ PumpPoll \/ PumpCount \/ PumpSleep

\* The next step of thread t is arm's "self.count = 0".
AtCountZero(t) ==
  /\ InBody(t)
  /\ ~AtEnd(Top(stack[t]))
  /\ Ins(Top(stack[t])) = Do("count_zero")

\* The methods the client of a camera with a DataThread calls.
PumpOps == {"enable", "arm"}

\* The singleton camera of a worker process; its client enables and arms it
\* while a DataThread polls for frames.
InitPump ==
  /\ NoServers
  /\ NoPump
  /\ NoManager
  /\ Constructed({1}, {1}, {1}, FALSE)
  /\ singleton = [c \in {1} |-> TRUE]
  /\ CurrentCamera = handle(1)
  /\ devCaps = [c \in {1} |-> IXON_EMCCD]
  /\ devGain = [c \in {1} |-> MaxVal]
  /\ devAmp = [c \in {1} |-> 0]

NextPump ==
  \/ /\ \E t \in Threads :
          /\ \/ \E m \in PumpOps : ClientCall(t, m, EmptyDict)
             \/ Run(t)
          /\ pump' = IF AtCountZero(t) THEN [pump EXCEPT !.fetched = 0] ELSE pump
     /\ UNCHANGED <<serveVars, manager>>
  \/ /\ Pump
     /\ UNCHANGED <<sessionVars, serveVars, manager>>

SpecPump == InitPump /\ [][NextPump]_vars

\* One camera whose client enables it and updates its settings with dicts
\* that may hold an unknown key.
InitKeys ==
  /\ NoServers
  /\ NoPump
  /\ NoManager
  /\ Constructed({1}, {1}, {1}, TRUE)
  /\ singleton \in [{1} -> BOOLEAN]
  /\ CurrentCamera = handle(1)
  /\ devCaps = [c \in {1} |-> IXON_EMCCD]
  /\ devGain = [c \in {1} |-> MaxVal]
  /\ devAmp = [c \in {1} |-> 0]

NextKeys ==
  /\ \E t \in Threads :
       \/ \E m \in SettingsOps, a \in DictsWithUnknownKey : ClientCall(t, m, a)
       \/ Run(t)
  /\ UNCHANGED <<serveVars, pump, manager>>

SpecKeys == InitKeys /\ [][NextKeys]_vars

\* ------------------------------------------------- CameraServer.serve
\* The worker processes __main__ starts, and the devices the driver finds.
Workers == 1..2
Devices == 1..NumCams

\* The serial numbers a device may carry: those of the tables and others.
Serials == 9145..(9145 + NumCams)

\* CameraServer.serial_to_host and CameraServer.serial_to_port.
serial_to_host == (9145 :> "127.0.0.1") @@ (9146 :> "127.0.0.1")
serial_to_port == (9145 :> 7776) @@ (9146 :> 7777)

\* The handle GetCameraHandle gives a process for an index, and the device
\* that handle stands for in that process.
HandleFor(index) == 100 + index
DeviceOf(p, h) == enumeration[p][h - 100 + 1]

\* serve() of worker p is at step pc.
ServeAt(p, pc) == server[p].pc = pc

\* serve() of worker p goes on with the fields of its record changed.
ServeGo(p, r) ==
  /\ server' = [server EXCEPT ![p] = r]
  /\ UNCHANGED <<enumeration, serialOf>>

\* An exception leaves serve() and run(): the worker process ends.
ServeFail(p, where) ==
  ServeGo(p, [server[p] EXCEPT !.pc = "failed", !.at = where])

\* sdk.GetAvailableCameras(num_cameras).
ServeEnumerate(p) ==
  /\ ServeAt(p, "enumerate")
  /\ \E r \in SdkResults("GetAvailableCameras") :
       IF r = 0 THEN ServeFail(p, "GetAvailableCameras")
       ELSE ServeGo(p, [server[p] EXCEPT !.pc = "check_index",
                                         !.num = Cardinality(Devices)])
  /\ UNCHANGED owner

\* "if self.index >= num_cameras.value: raise".
ServeCheckIndex(p) ==
  /\ ServeAt(p, "check_index")
  /\ IF server[p].index >= server[p].num
     THEN ServeFail(p, "index")
     ELSE ServeGo(p, [server[p] EXCEPT !.pc = "get_handle"])
  /\ UNCHANGED owner

\* sdk.GetCameraHandle(self.index, handle).
ServeGetHandle(p) ==
  /\ ServeAt(p, "get_handle")
  /\ \E r \in SdkResults("GetCameraHandle") :
       IF r = 0 THEN ServeFail(p, "GetCameraHandle")
       ELSE ServeGo(p, [server[p] EXCEPT !.pc = "select",
                                         !.handle = HandleFor(server[p].index)])
  /\ UNCHANGED owner

\* Variant of ServeSelect that selects the first device's handle whatever the
\* index (C23 rejects it).
ServeSelectFirst(p) ==
  /\ ServeAt(p, "select")
  /\ \E r \in SdkResults("SetCurrentCamera") :
       IF r = 0 THEN ServeFail(p, "SetCurrentCamera")
       ELSE ServeGo(p, [server[p] EXCEPT !.pc = "construct",
                                         !.current = HandleFor(0)])
  /\ UNCHANGED owner

\* sdk.SetCurrentCamera(handle).
ServeSelect(p) ==
  /\ ServeAt(p, "select")
  /\ \E r \in SdkResults("SetCurrentCamera") :
       IF r = 0 THEN ServeFail(p, "SetCurrentCamera")
       ELSE ServeGo(p, [server[p] EXCEPT !.pc = "construct",
                                         !.current = server[p].handle])
  /\ UNCHANGED owner

\* self.cam = Camera(handle, singleton=True).
ServeConstruct(p) ==
  /\ ServeAt(p, "construct")
  /\ ServeGo(p, [server[p] EXCEPT !.pc = "initialize", !.cam = server[p].handle])
  /\ UNCHANGED owner

\* Variant of ServeInitialize that goes on when Initialize raises (C13
\* rejects it).
ServeInitializeSwallowed(p) ==
  /\ ServeAt(p, "initialize")
  /\ ServeGo(p, [server[p] EXCEPT !.pc = "serial"])
  /\ \/ UNCHANGED owner
     \/ /\ owner[DeviceOf(p, server[p].current)] \in {0, p}
        /\ owner' = [owner EXCEPT ![DeviceOf(p, server[p].current)] = p]

\* self.cam.Initialize(''): the driver binds the current device to this
\* process, or raises; it raises when another process has the device.
ServeInitialize(p) ==
  /\ ServeAt(p, "initialize")
  /\ \/ /\ ServeFail(p, "Initialize")
        /\ UNCHANGED owner
     \/ /\ owner[DeviceOf(p, server[p].current)] \in {0, p}
        /\ owner' = [owner EXCEPT ![DeviceOf(p, server[p].current)] = p]
        /\ ServeGo(p, [server[p] EXCEPT !.pc = "serial"])

\* serial = self.cam.get_camera_serial_number().
ServeSerial(p) ==
  /\ ServeAt(p, "serial")
  /\ \E r \in SdkResults("GetCameraSerialNumber") :
       IF r = 0 THEN ServeFail(p, "GetCameraSerialNumber")
       ELSE ServeGo(p, [server[p] EXCEPT
              !.pc = "has_host",
              !.serial = serialOf[DeviceOf(p, server[p].current)]])
  /\ UNCHANGED owner

\* "if not self.serial_to_host.has_key(serial): raise".
ServeHasHost(p) ==
  /\ ServeAt(p, "has_host")
  /\ IF server[p].serial \notin DOMAIN serial_to_host
     THEN ServeFail(p, "serial_to_host")
     ELSE ServeGo(p, [server[p] EXCEPT !.pc = "has_port"])
  /\ UNCHANGED owner

\* "if not self.serial_to_port.has_key(serial): raise".
ServeHasPort(p) ==
  /\ ServeAt(p, "has_port")
  /\ IF server[p].serial \notin DOMAIN serial_to_port
     THEN ServeFail(p, "serial_to_port")
     ELSE ServeGo(p, [server[p] EXCEPT !.pc = "endpoint"])
  /\ UNCHANGED owner

\* Variant of ServeEndpoint that takes the endpoint of the index-th entry of
\* the tables (C14 rejects it).
ServeEndpointByIndex(p) ==
  /\ ServeAt(p, "endpoint")
  /\ ServeGo(p, [server[p] EXCEPT
       !.pc = "status",
       !.host = serial_to_host[9145 + server[p].index],
       !.port = serial_to_port[9145 + server[p].index]])
  /\ UNCHANGED owner

\* host = self.serial_to_host[serial]; port = self.serial_to_port[serial].
ServeEndpoint(p) ==
  /\ ServeAt(p, "endpoint")
  /\ ServeGo(p, [server[p] EXCEPT
       !.pc = "status",
       !.host = serial_to_host[server[p].serial],
       !.port = serial_to_port[server[p].serial]])
  /\ UNCHANGED owner

\* "if self.status:" set the pid and start the StatusThread.
ServeStatus(p) ==
  /\ ServeAt(p, "status")
  /\ ServeGo(p, [server[p] EXCEPT !.pc = "bind"])
  /\ UNCHANGED owner

\* daemon = Pyro4.Daemon(port=port, host=host), then serveSimple: the
\* endpoint is bound and the worker serves its camera, or the daemon raises.
ServeBind(p) ==
  /\ ServeAt(p, "bind")
  /\ \/ ServeFail(p, "Daemon")
     \/ ServeGo(p, [server[p] EXCEPT
          !.pc = "serving",
          !.bound = <<server[p].host, server[p].port>>])
  /\ UNCHANGED owner

\* A method of self.cam called by the RPC daemon or the status thread once
\* the worker serves: the session is a singleton, so the wrapper calls the
\* method without selecting, and the driver acts on the device that is
\* current in the process; acted remembers its handle.
ServeSessionCall(p) ==
  /\ ServeAt(p, "serving")
  /\ server[p].cam # 0
  /\ ServeGo(p, [server[p] EXCEPT !.acted = server[p].current])
  /\ UNCHANGED owner

\* One step of CameraServer.serve in worker p.
Serve(p) ==
  \/ ServeSessionCall(p)
  \/ ServeEnumerate(p) \/ ServeCheckIndex(p) \/ ServeGetHandle(p)
  \/ ServeSelect(p) \/ ServeConstruct(p) \/ ServeInitialize(p)
  \/ ServeSerial(p) \/ ServeHasHost(p) \/ ServeHasPort(p)
  \/ ServeEndpoint(p) \/ ServeStatus(p) \/ ServeBind(p)

\* CameraServer.__init__ with the index given, and Process.start().
Started(index) ==
  [index |-> index, pc |-> "enumerate", at |-> "", num |-> 0, handle |-> 0,
   current |-> 0, cam |-> 0, acted |-> 0, serial |-> 0, host |-> "", port |-> 0,
   bound |-> <<>>]

\* The one-to-one maps from set S to set T.
Injections(S, T) ==
  {f \in [S -> T] : \A a, b \in S : a # b => f[a] # f[b]}

\* Two workers started on any indices; devices with any distinct serials;
\* each process enumerates the devices in an order of its own.
InitServe ==
  /\ \E idx \in [Workers -> 0..NumCams] :
       server = [p \in Workers |-> Started(idx[p])]
  /\ enumeration \in [Workers -> Injections(Devices, Devices)]
  /\ enumeration[1] = [d \in Devices |-> d]
  /\ owner = [d \in Devices |-> 0]
  /\ serialOf \in Injections(Devices, Serials)
  /\ NoPump
  /\ NoManager
  /\ Constructed({}, {}, {}, FALSE)
  /\ singleton = <<>>
  /\ CurrentCamera = 0
  /\ devCaps = <<>>
  /\ devGain = <<>>
  /\ devAmp = <<>>

NextServe ==
  /\ \E p \in Workers : Serve(p)
  /\ UNCHANGED <<sessionVars, pump, manager>>

SpecServe == InitServe /\ [][NextServe]_vars

\* ------------------------------------------------------ CameraManager
MgrAt(pc) == manager.pc = pc

\* The sequence s without its k-th element.
RemoveAt(s, k) == [j \in 1..(Len(s) - 1) |-> IF j < k THEN s[j] ELSE s[j + 1]]

\* An exception leaves update_cameras.
MgrRaise == manager' = [manager EXCEPT !.pc = "idle", !.st = "raised"]

\* A call of update_cameras: "for cam in self.cameras" starts at the front of
\* the list.
MgrCall ==
  /\ MgrAt("idle")
  /\ manager.calls < MaxUpdates
  /\ manager' = [manager EXCEPT !.pc = "remove", !.st = "running", !.it = 0,
                                !.calls = @ + 1]

\* "for cam in self.cameras: self.cameras.remove(cam)": the iterator takes the
\* element at its position in the list as the list is now, or ends when the
\* position is past the end; remove(cam) takes that very session out of the
\* list (sessions compare by identity), and the iterator moves on by one.
MgrRemove ==
  /\ MgrAt("remove")
  /\ manager' =
       IF manager.it >= Len(manager.cameras)
       THEN [manager EXCEPT !.pc = "enumerate"]
       ELSE [manager EXCEPT !.cameras = RemoveAt(@, manager.it + 1),
                            !.it = @ + 1]

\* sdk.GetAvailableCameras(num_cameras).
MgrEnumerate ==
  /\ MgrAt("enumerate")
  /\ \E r \in SdkResults("GetAvailableCameras") :
       IF r = 0 THEN MgrRaise
       ELSE manager' = [manager EXCEPT !.pc = "append", !.i = 0,
                                       !.num = Cardinality(Devices)]

\* "for i in range(num_cameras.value)": GetCameraHandle, then a new Camera
\* appended to the list and the handle entered in handle_to_camera.
MgrAppend ==
  /\ MgrAt("append")
  /\ IF manager.i >= manager.num
     THEN manager' = [manager EXCEPT !.pc = "idle", !.st = "returned"]
     ELSE \E r \in SdkResults("GetCameraHandle") :
            IF r = 0 THEN MgrRaise
            ELSE manager' = [manager EXCEPT
                   !.cameras = Append(@, [handle |-> HandleFor(manager.i),
                                          id |-> manager.made + 1]),
                   !.made = @ + 1,
                   !.handle_to_camera = (HandleFor(manager.i) :> manager.i) @@ @,
                   !.i = @ + 1]

\* One step of CameraManager.update_cameras.
UpdateCameras == MgrCall \/ MgrRemove \/ MgrEnumerate \/ MgrAppend

\* CameraManager.__init__.
ManagerConstructed ==
  manager = [cameras |-> <<>>, handle_to_camera |-> <<>>, pc |-> "idle",
             st |-> "idle", it |-> 0, i |-> 0, num |-> 0, made |-> 0,
             calls |-> 0]

\* CameraManager.__init__ in a process that holds no camera yet.
InitManager ==
  /\ ManagerConstructed
  /\ NoServers
  /\ NoPump
  /\ Constructed({}, {}, {}, FALSE)
  /\ singleton = <<>>
  /\ CurrentCamera = 0
  /\ devCaps = <<>>
  /\ devGain = <<>>
  /\ devAmp = <<>>

NextManager ==
  /\ UpdateCameras
  /\ UNCHANGED <<sessionVars, serveVars, pump>>

SpecManager == InitManager /\ [][NextManager]_vars

\* update_cameras is about to call the driver (sdk.GetAvailableCameras or
\* sdk.GetCameraHandle).
MgrAtDriverCall ==
  \/ MgrAt("enumerate")
  \/ MgrAt("append") /\ manager.i < manager.num

\* A process with a CameraManager and a camera with the default
\* singleton=False, which a thread calls while update_cameras runs.
InitManaged ==
  /\ ManagerConstructed
  /\ NoServers
  /\ NoPump
  /\ Constructed({1}, {1}, {}, FALSE)
  /\ singleton = [c \in {1} |-> FALSE]
  /\ CurrentCamera = handle(1)
  /\ devCaps = [c \in {1} |-> IXON_EMCCD]
  /\ devGain = [c \in {1} |-> MaxVal]
  /\ devAmp = [c \in {1} |-> 0]

NextManaged ==
  \/ /\ \E t \in Threads :
          \/ \E m \in MultiOps : ClientCall(t, m, EmptyDict)
          \/ Run(t)
     /\ UNCHANGED <<serveVars, pump, manager>>
  \/ /\ UpdateCameras
     /\ UNCHANGED <<sessionVars, serveVars, pump>>

SpecManaged == InitManaged /\ [][NextManaged]_vars

\* ===================================================================
\* Claims about the exclusive-access wrapper (with_camera)
\* ===================================================================
ThreadsOf(c) == {t \in Threads : CamOf(t) = c}

\* Thread t is about to call the driver from a wrapped method.
AtDriverCall(t) ==
  /\ InBody(t)
  /\ ~AtEnd(Top(stack[t]))
  /\ Ins(Top(stack[t])).op = "sdk"

\* Thread t is inside the guarded section of its outermost with_camera call:
\* past the acquisition and not yet past the release.
InGuarded(t) ==
  /\ stack[t] # <<>>
  /\ stack[t][1].ph \in {"select", "body", "exc_check", "exc_release", "exit_release"}

\* C1: whenever a driver operation of a non-singleton session runs, the
\* driver's current-device selector equals the calling session's handle.
C1_SelectorIsCallers ==
  \A t \in Threads :
    (AtDriverCall(t) /\ ~singleton[CamOf(t)]) => CurrentCamera = handle(CamOf(t))

\* C2: at any moment at most one thread, over all sessions and threads of the
\* process, is executing inside a with_camera-guarded section.
C2_OneThreadInside ==
  Cardinality({t \in Threads : ~singleton[CamOf(t)] /\ InGuarded(t)}) <= 1

\* C3: when the outermost with_camera call of a non-singleton session returns
\* or raises (and no other call of that session is in progress), the session's
\* has_lock is False and dll_lock is not held by an acquisition of the session.
C3_ReleasedOnExit ==
  [][\A t \in Threads :
       ( /\ stack[t] # <<>>
         /\ stack'[t] = <<>>
         /\ ~singleton[CamOf(t)]
         /\ \A u \in ThreadsOf(CamOf(t)) \ {t} : stack[u] = <<>> )
       => ( /\ ~has_lock'[CamOf(t)]
            /\ dll_lock' \notin ThreadsOf(CamOf(t)) )]_vars

\* C4: no deadlock: in every reachable state some thread is not blocked in
\* dll_lock.acquire() (an idle thread can always start a call).
C4_NoDeadlock ==
  \E t \in Threads : ~(AtPhase(t, "acquire") /\ dll_lock # 0)

\* C5: a singleton session never acquires or releases dll_lock: no step taken
\* while the camera is a singleton changes the lock.
C5_SingletonNeverLocks ==
  [][(\A c \in Cams : singleton[c]) => dll_lock' = dll_lock]_vars

\* C5 witness: a singleton session has finished a call with nested calls, one
\* of which raised and was caught, and that raised itself in the end.
C5_Witness ==
  /\ singleton[1]
  /\ op[1].m = "enable"
  /\ op[1].st = "raised"
  /\ <<"caught", "abort", 0, 0>> \in trace[1]

\* ===================================================================
\* Claims about disable, arm and enable (one session, one calling thread)
\* ===================================================================
\* The watched thread's client call of method m has finished with status st.
Done(m, st) ==
  /\ op[1].m = m
  /\ op[1].st = st

\* The watched thread's current client call issued driver function fn.
Issued(fn) == \E e \in trace[1] : e[1] = "sdk" /\ e[2] = fn

\* C6: disable() always leaves the session disabled and the device at minimum
\* EM gain with the conventional amplifier selected, from every prior state
\* (here: whenever disable() has returned normally).
C6_DisableForcesSafeState ==
  Done("disable", "returned") =>
    ( /\ ~enabled[1]
      /\ devGain[CurrentCamera] = 0
      /\ devAmp[CurrentCamera] = 1 )

\* C7: disable() swallows a failure of its abort step: whenever the call of
\* abort raised inside a finished disable(), the failure was caught, make_safe
\* was still called, and disable() raised only if make_safe raised.
C7_DisableSwallowsAbortFailure ==
  ( /\ op[1].m = "disable"
    /\ op[1].st \in {"returned", "raised"}
    /\ <<"raised", "abort", 0, 0>> \in trace[1] )
  => ( /\ <<"caught", "abort", 0, 0>> \in trace[1]
       /\ <<"call", "make_safe", 0, 0>> \in trace[1]
       /\ op[1].st = "raised" => <<"raised", "make_safe", 0, 0>> \in trace[1] )

\* C7 witness: on a non-singleton session, abort failed inside disable(),
\* make_safe then lowered the EM gain, and disable() returned normally.
C7_Witness ==
  /\ ~singleton[1]
  /\ Done("disable", "returned")
  /\ <<"caught", "abort", 0, 0>> \in trace[1]
  /\ Issued("SetEMCCDGain")

\* The cases of C8: arm() was called on a session that was not enabled, or its
\* temperature query answered "not stabilized".
ArmWhileNotReady ==
  /\ op[1].m = "arm"
  /\ \/ ~op[1].pre.enabled
     \/ \E e \in trace[1] : /\ e[1] = "sdk"
                            /\ e[2] = "GetTemperature"
                            /\ e[4] = DRV_TEMP_NOT_STABILIZED

\* C8: arm() on a session that is not enabled or whose temperature is not
\* stabilized never returns normally, issues neither the shutter command nor
\* the start-acquisition command, and leaves armed and count as they were.
C8_ArmRefusedWhenNotReady ==
  ArmWhileNotReady =>
    ( /\ op[1].st # "returned"
      /\ ~Issued("SetShutter")
      /\ ~Issued("StartAcquisition")
      /\ armed[1] = op[1].pre.armed
      /\ count[1] = op[1].pre.count )

\* C8 witness: arm() of an enabled session raised after the temperature query
\* answered "not stabilized".
C8_Witness ==
  /\ Done("arm", "raised")
  /\ op[1].pre.enabled
  /\ <<"sdk", "GetTemperature", CurrentCamera, DRV_TEMP_NOT_STABILIZED>> \in trace[1]

\* C9: a failed arm() leaves armed False and count unchanged, at whichever
\* step it failed (the start-acquisition command included).
C9_FailedArmNotArmed ==
  (Done("arm", "raised") /\ ~op[1].pre.armed) =>
    ( /\ ~armed[1]
      /\ count[1] = op[1].pre.count )

\* C10: a failed enable() leaves enabled False, at whichever step it failed
\* (here: on a session that was not enabled when enable() was called).
C10_FailedEnableNotEnabled ==
  (Done("enable", "raised") /\ ~op[1].pre.enabled) => ~enabled[1]

\* C18: abort() takes an armed session back to ready: when abort() has
\* returned on a session that was armed and enabled, the session is no longer
\* armed and is still enabled.
C18_AbortDisarms ==
  (Done("abort", "returned") /\ op[1].pre.armed /\ op[1].pre.enabled) =>
    (~armed[1] /\ enabled[1])

\* ===================================================================
\* Claims about the settings (enable, update_settings)
\* ===================================================================
\* C11: enable(settings) applies every recognized setting of the passed
\* settings to the driver, whatever the session's settings map held before:
\* when enable() has returned, the setter of the passed EMGain was issued
\* with the passed value.
C11_EnableAppliesEverySetting ==
  (Done("enable", "returned") /\ op[1].arg["EMGain"] # 0) =>
    <<"sdk", "SetEMCCDGain", CurrentCamera, op[1].arg["EMGain"]>> \in trace[1]

\* C12: update_settings(settings) with init=False calls the setter only of
\* the keys absent from, or changed relative to, the session's settings map:
\* when the passed EMGain equals the value the map held, the setter was not
\* called.
C12_UnchangedSettingNotReapplied ==
  ( /\ op[1].m = "update_settings"
    /\ op[1].arg["EMGain"] # 0
    /\ op[1].arg["EMGain"] = op[1].pre.settings["EMGain"] )
  => ~Issued("SetEMCCDGain")

\* C17: enable is idempotent: when enable(settings) has returned and the call
\* before it was enable with the same settings, which returned, the flags,
\* the settings map and the gain applied to the device are as the first call
\* left them.
C17_EnableIdempotent ==
  (Done("enable", "returned") /\ op[1].again) =>
    ( /\ enabled[1] = op[1].pre.enabled
      /\ armed[1] = op[1].pre.armed
      /\ settings[1] = op[1].pre.settings
      /\ devGain[CurrentCamera] = op[1].pre.gain )

\* ===================================================================
\* Claims about has_lock
\* ===================================================================
\* No wrapper is between acquiring dll_lock and setting has_lock, or between
\* releasing dll_lock and clearing has_lock.
NoFlagStepPending ==
  \A t \in Threads : ~( \/ AtPhase(t, "setflag")
                        \/ AtPhase(t, "exit_clear")
                        \/ AtPhase(t, "exc_clear") )

\* dll_lock is held, and the call that acquired it is a call of session c.
HeldFor(c) == dll_lock # 0 /\ CamOf(dll_lock) = c

\* C24: outside the steps that acquire and flag, or release and unflag, a
\* non-singleton session's has_lock is True exactly when dll_lock is held and
\* was acquired by a call of that session.
C24_HasLockMeansHeld ==
  NoFlagStepPending =>
    \A c \in Cams : ~singleton[c] => (has_lock[c] <=> HeldFor(c))

\* The outer operation on thread 1 caught the failure of its nested abort()
\* and is running the rest of its body.
CarriesOnAfterAbortFailed ==
  /\ ~singleton[CamOf(1)]
  /\ op[1].m \in {"disable", "enable", "update_settings"}
  /\ stack[1] # <<>>
  /\ stack[1][1].ph = "body"
  /\ <<"caught", "abort", 0, 0>> \in trace[1]

\* C25: when an operation of a non-singleton session has caught the failure
\* of its nested abort() and carries on, the rest of the operation runs with
\* dll_lock held for the session.
C25_LockKeptAfterCaughtFailure ==
  CarriesOnAfterAbortFailed => HeldFor(CamOf(1))

\* ===================================================================
\* Claims about the armed flag
\* ===================================================================
\* C26: whatever calls the client made, armed implies enabled once the call
\* has returned: the armed flag is never True while the session is disabled.
C26_ArmedImpliesEnabled ==
  (stack[1] = <<>> /\ op[1].st = "returned") => (armed[1] => enabled[1])

\* ===================================================================
\* Claims about the selected device of a worker process
\* ===================================================================
\* Worker p is at a driver call of its session made by serve() itself.
ServeAtDriverCall(p) == ServeAt(p, "initialize") \/ ServeAt(p, "serial")

\* C23: in a worker process the device current in the driver is the handle of
\* the singleton session at every driver call the session issues: at
\* Initialize and the serial-number query of serve(), and at every call made
\* once the worker serves.
C23_WorkerSelectionIsSessionHandle ==
  \A p \in Workers :
    /\ ServeAtDriverCall(p) => server[p].current = server[p].cam
    /\ server[p].acted # 0 => server[p].acted = server[p].cam
    /\ server[p].cam # 0 => server[p].cam = HandleFor(server[p].index)

\* C23 witness: a worker started on the second index serves, and a call of its
\* session has acted on the session's device.
C23_Witness ==
  \E p \in Workers :
    /\ ServeAt(p, "serving")
    /\ server[p].index = 1
    /\ server[p].acted = server[p].cam
    /\ server[p].acted = HandleFor(1)

\* ===================================================================
\* Claims about keys without a setter
\* ===================================================================
\* The call in progress or finished on thread 1 was passed the unknown key.
PassedUnknownKey ==
  /\ op[1].m \in SettingsOps
  /\ UnknownKey \in DOMAIN op[1].arg
  /\ op[1].arg[UnknownKey] # 0

\* Something other than the caught failure of abort() raised during the call.
DriverFailed ==
  \E e \in trace[1] : e[1] = "raised" /\ e[2] \notin {"abort", "AbortAcquisition"}

\* The driver functions enable() and update_settings() call for the keys and
\* steps they know: those wrapped as methods and those called directly.
KnownDriverCalls ==
  DriverFuncs \cup {"GetCapabilities", "GetDetector", "GetFastestRecommendedVSSpeed"}

\* The call works on the passed EMGain: update_settings on a value that differs
\* from the one the map held, enable on a key the map already held.
WorksOnEMGain ==
  /\ op[1].arg["EMGain"] # 0
  /\ op[1].m = "update_settings" => op[1].arg["EMGain"] # op[1].pre.settings["EMGain"]
  /\ op[1].m = "enable" => op[1].pre.settings["EMGain"] # 0

\* C22: a key with no registered setter, passed to enable() or
\* update_settings(), is ignored: no driver function is called for it, the call
\* raises only when the selection or a driver call of the known steps raised,
\* the recognized key the call works on still reaches its setter with the
\* passed value, and a call that returns leaves enabled True (and the key in
\* the settings map).
C22_UnknownKeyIgnored ==
  PassedUnknownKey =>
    /\ \A e \in trace[1] : e[1] = "sdk" => e[2] \in KnownDriverCalls
    /\ op[1].st = "raised" => (trace[1] = {} \/ DriverFailed)
    /\ op[1].st = "returned" =>
         /\ enabled[1]
         /\ settings[1][UnknownKey] = op[1].arg[UnknownKey]
         /\ WorksOnEMGain =>
              <<"sdk", "SetEMCCDGain", CurrentCamera, op[1].arg["EMGain"]>> \in trace[1]

\* C22 witness: enable() returned after its loop met both the unknown key and
\* EMGain, and the setter of EMGain was called.
C22_Witness ==
  /\ Done("enable", "returned")
  /\ PassedUnknownKey
  /\ UnknownKey \in DOMAIN op[1].pre.settings
  /\ op[1].pre.settings[UnknownKey] # 0
  /\ WorksOnEMGain
  /\ Issued("SetEMCCDGain")

\* ===================================================================
\* Claims about shutdown (Camera.__exit__)
\* ===================================================================
\* C16: __exit__ is idempotent: once it has called ShutDown, whether the
\* driver's ShutDown succeeded or failed (as on a session never initialized or
\* already shut down), __exit__ does not raise and leaves enabled, armed and
\* ready False; invoked again after it returned, it leaves the flags, the
\* settings map and the device as the first invocation left them.
C16_ExitIdempotent ==
  ( /\ op[1].m = "__exit__"
    /\ op[1].st \in {"returned", "raised"}
    /\ <<"call", "ShutDown", 0, 0>> \in trace[1] )
  => ( /\ op[1].st = "returned"
       /\ ~enabled[1]
       /\ ~armed[1]
       /\ ~ready[1]
       /\ op[1].again =>
            ( /\ enabled[1] = op[1].pre.enabled
              /\ armed[1] = op[1].pre.armed
              /\ settings[1] = op[1].pre.settings
              /\ devGain[CurrentCamera] = op[1].pre.gain ) )

\* C16 witness: __exit__ was invoked a second time, the driver's ShutDown
\* failed, and the call returned.
C16_Witness ==
  /\ Done("__exit__", "returned")
  /\ op[1].again
  /\ <<"caught", "ShutDown", 0, 0>> \in trace[1]

\* ===================================================================
\* Claims about the image pump (DataThread)
\* ===================================================================
\* C19: once the session is armed, its exposure counter equals the number of
\* frames the pump has fetched successfully since that arm (whenever the pump
\* is not between a fetch and its increment).
C19_CountIsFetched ==
  (armed[1] /\ ~PumpAt("count")) => count[1] = pump.fetched

\* ===================================================================
\* Claims about the camera manager (CameraManager.update_cameras)
\* ===================================================================
\* C20: after any sequence of update_cameras() calls with a fixed set of
\* devices, the manager's list holds exactly one session per device and no
\* two sessions of the list own the same handle.
C20_OneSessionPerDevice ==
  (MgrAt("idle") /\ manager.st = "returned") =>
    ( /\ Len(manager.cameras) = Cardinality(Devices)
      /\ \A j, k \in 1..Len(manager.cameras) :
           j # k => manager.cameras[j].handle # manager.cameras[k].handle )

\* C21: no driver call is made outside the exclusive-access wrapper: while
\* update_cameras is at a driver call (device enumeration or handle
\* acquisition), no thread is inside a with_camera-guarded section of a
\* non-singleton session.
C21_ManagerCallsGuarded ==
  MgrAtDriverCall =>
    \A t \in Threads : ~(~singleton[CamOf(t)] /\ InGuarded(t))

\* ===================================================================
\* Claims about the worker processes (CameraServer.serve)
\* ===================================================================
\* The device worker p initialized (0: none).
Initialized(p) == {d \in Devices : owner[d] = p}

\* C13: a worker binds its endpoint only after it has initialized its
\* session, read the serial number and found it in the tables; a worker whose
\* index is out of range, whose initialization failed or whose serial is not
\* in the tables has bound no endpoint.
C13_BindAfterIdentity ==
  \A p \in Workers :
    /\ server[p].bound # <<>> =>
         ( /\ Initialized(p) # {}
           /\ server[p].serial # 0
           /\ server[p].serial \in DOMAIN serial_to_host
           /\ server[p].serial \in DOMAIN serial_to_port )
    /\ ( \/ server[p].index >= Cardinality(Devices)
         \/ server[p].pc = "failed"
         \/ (server[p].serial # 0 /\ server[p].serial \notin DOMAIN serial_to_port) )
       => server[p].bound = <<>>

\* C13 witness: one worker serves at its endpoint while the other has failed
\* because its serial is in no table.
C13_Witness ==
  /\ server[1].pc = "serving"
  /\ server[1].bound # <<>>
  /\ server[2].pc = "failed"
  /\ server[2].at = "serial_to_host"

\* C14: with two workers on distinct indices, a worker that has bound did so
\* at the host and port the tables give for the serial of the device it
\* initialized, whatever the order in which each process enumerates the
\* devices, and the two workers never bind the same endpoint.
C14_BoundToResolvedSerial ==
  server[1].index # server[2].index =>
    /\ \A p \in Workers :
         server[p].bound # <<>> =>
           \E d \in Initialized(p) :
             server[p].bound = <<serial_to_host[serialOf[d]],
                                 serial_to_port[serialOf[d]]>>
    /\ (server[1].bound # <<>> /\ server[2].bound # <<>>)
         => server[1].bound # server[2].bound

\* C14 witness: both workers serve; the worker on index 0 resolved the serial
\* of the second table entry and the worker on index 1 that of the first, and
\* each is bound at the port of its serial.
C14_Witness ==
  /\ server[1].pc = "serving"
  /\ server[2].pc = "serving"
  /\ server[1].index = 1
  /\ server[2].index = 0
  /\ server[1].serial = 9145
  /\ server[2].serial = 9146
  /\ server[1].bound = <<"127.0.0.1", 7776>>
  /\ server[2].bound = <<"127.0.0.1", 7777>>

\* C15: a failure of Initialize is caught and does not end the worker's
\* startup: no worker has stopped because Initialize raised.
C15_InitializeFailureNotFatal ==
  \A p \in Workers : ~(server[p].pc = "failed" /\ server[p].at = "Initialize")

====
